---- MODULE Spec2Model ----
(***************************************************************************)
(* A model of phoneflasher.py (PhoneFlasherApp): the presentation thread   *)
(* with its button handlers and modal dialogs, the worker threads started  *)
(* by _run_in_thread, the log queue, the external adb/fastboot executables *)
(* and the downloader.                                                      *)
(*                                                                         *)
(* Strings whose content the code inspects (entry texts, subprocess        *)
(* output) are sequences of tokens, so that str.strip() and the substring  *)
(* test are computed.  Log messages are pairs <<template, arguments>>.     *)
(***************************************************************************)
EXTENDS Integers, Sequences, FiniteSets, TLC

\* ------------------------------------------------------------------ bounds

\* Worker threads started in one run of the application: how many there may
\* be when a reboot or wipe thread, a flash thread, or a refresh or vendor
\* thread is started.
MaxThreads == 2
MaxFlashThreads == 1
MaxStatusThreads == 1

\* Entries of the Flash tab that hold text at the same time.
MaxFilled == 2

\* Times the wipe confirmation is asked.
MaxWipes == 2

\* Download threads started in one run, candidate URLs of one download,
\* units of data in a response body (and, for the progress lines, in a long
\* one), and units one read returns.
MaxDownloadThreads == 2
MaxUrls == 2
MaxBody == 2
ProgressBody == 12
MaxChunk == 2

\* ------------------------------------------------------- program constants

\* Keys of self.flash_entries, in insertion order (dict order).
Partitions == <<"boot", "recovery", "system", "vendor">>

\* The VENDOR_TOOLS table: installer kind, candidate URLs, fallback page.
VENDOR_TOOLS ==
    [ Samsung |-> [type |-> "dmg", urls |-> <<"SmartSwitch4Mac.dmg">>,
                   fallback_url |-> "samsung.com/smart-switch"],
      LG      |-> [type |-> "dmg", urls |-> <<"LGBridge_1.2.0.dmg">>,
                   fallback_url |-> "lg.com/lg-bridge-downloads"],
      OnePlus |-> [type |-> "url", urls |-> <<>>,
                   fallback_url |-> "oneplus.com/support/softwareupgrade"],
      Pixel   |-> [type |-> "url", urls |-> <<>>,
                   fallback_url |-> "developers.google.com/android/images"] ]

\* platform_tools_paths(): the two executables under tools/platform-tools.
platform_tools_paths == [adb |-> "adb", fastboot |-> "fastboot"]

\* The presentation (Tk main loop) thread; worker threads are 1, 2, ...
MainThread == 0

\* ------------------------------------------------------------ environment

\* Characters str.strip() removes.
Whitespace == {" ", "\t", "\n"}

\* Texts an Entry widget can hold (typed, or chosen in the file dialog).
EntryTexts == { <<>>, <<" ">>, <<" ", "/a.img", " ">> }

\* stdout + stderr of a finished `adb devices` / `fastboot devices` process.
DevicesOutputs == { <<"\n">>,
                    <<"List of devices attached", "\n">>,
                    <<"List of devices attached", "\n", "SERIAL", "\t", "device", "\n">> }

\* stdout + stderr of a finished reboot, wipe or flash process.
CommandOutputs == { <<>>, <<"FAILED", "\n">> }

\* --------------------------------------------------------- pure functions

RECURSIVE lstrip(_)
lstrip(s) ==
    IF s # <<>> /\ Head(s) \in Whitespace THEN lstrip(Tail(s)) ELSE s

RECURSIVE rstrip(_)
rstrip(s) ==
    IF s # <<>> /\ s[Len(s)] \in Whitespace
    THEN rstrip(SubSeq(s, 1, Len(s) - 1)) ELSE s

\* str.strip()
strip(s) == rstrip(lstrip(s))

\* "\tdevice" in text
contains_tab_device(text) ==
    \E k \in 1..(Len(text) - 1) : text[k] = "\t" /\ text[k + 1] = "device"

Msg(template, arguments) == <<template, arguments>>

\* ------------------------------------------------------------------ state

VARIABLES
    flash_entries,    \* text of the four Entry widgets of the Flash tab
    dialog,           \* modal messagebox the presentation thread is blocked in
    threads,          \* the worker threads started by _run_in_thread, in order
    log_queue,        \* self.log_queue (queue.Queue): messages not yet shown
    log_output,       \* lines of the ScrolledText log widget
    adb_status,       \* text of the ADB status label
    fastboot_status,  \* text of the Fastboot status label
    after_queue,      \* callbacks scheduled with self.after(0, ...)
    fs,               \* which of the tool executables exist on disk
    tkCalls,          \* history: <<thread, call>> of the Tk calls that show a
                      \* result (log text, device status, error dialog)
    wipe_answers      \* history: the answers given to the wipe confirmation

appVars == << flash_entries, dialog, threads, log_queue, log_output,
              adb_status, fastboot_status, after_queue, fs, tkCalls,
              wipe_answers >>

VARIABLES
    dest,         \* the file at the destination path of the download
    completed,    \* history: the bodies of the transfers that ran to their end
    body_limit    \* the most units a server sends in this run

dlVars == << dest, completed, body_limit >>

Tools == {platform_tools_paths.adb, platform_tools_paths.fastboot}
PartitionSet == {Partitions[k] : k \in 1..Len(Partitions)}
ThreadIds == DOMAIN threads

\* A Thread object: target and args as given to threading.Thread, the
\* position in the target's code, its locals, and (history) which wipe
\* confirmation preceded its start (0: none) and what it did.
NewThread(target, args, selections, confirmed) ==
    [ target |-> target, args |-> args, pc |-> "start", i |-> 1,
      selections |-> selections, adb_out |-> <<>>, fastboot_out |-> <<>>,
      confirmed |-> confirmed, events |-> <<>> ]

\* self.log(message): queue.put
LogEvents(msgs) == [k \in 1..Len(msgs) |-> <<"log", msgs[k]>>]
LogsOf(events) ==
    LET logs == SelectSeq(events, LAMBDA e : e[1] = "log")
    IN  [k \in 1..Len(logs) |-> logs[k][2]]

\* --------------------------------------------------- presentation thread

ThreadLimit(target) ==
    IF target \in {"_adb_command", "_fastboot_command"} THEN MaxThreads
    ELSE IF target = "_flash_images" THEN MaxFlashThreads
    ELSE MaxStatusThreads

\* _run_in_thread(target, *args)
run_in_thread(target, args, selections, confirmed) ==
    /\ Len(threads) < ThreadLimit(target)
    /\ threads' = Append(threads, NewThread(target, args, selections, confirmed))

\* The main loop dispatches a button command only when no handler is running,
\* that is, when the presentation thread is not inside a modal dialog.
UiIdle == dialog = "none"

\* The user types into an Entry of the Flash tab.
TypeEntry(key, text) ==
    /\ UiIdle
    /\ flash_entries' = [flash_entries EXCEPT ![key] = text]
    /\ Cardinality({k \in PartitionSet : flash_entries'[k] # <<>>}) <= MaxFilled
    /\ UNCHANGED << dialog, threads, log_queue, log_output, adb_status,
                    fastboot_status, after_queue, fs, tkCalls, wipe_answers >>
    /\ UNCHANGED dlVars

\* _browse_file(entry): a cancelled file dialog returns "" and changes nothing.
browse_file(key, file_path) ==
    /\ UiIdle
    /\ flash_entries' = IF file_path # <<>>
                        THEN [flash_entries EXCEPT ![key] = file_path]
                        ELSE flash_entries
    /\ Cardinality({k \in PartitionSet : flash_entries'[k] # <<>>}) <= MaxFilled
    /\ UNCHANGED << dialog, threads, log_queue, log_output, adb_status,
                    fastboot_status, after_queue, fs, tkCalls, wipe_answers >>
    /\ UNCHANGED dlVars

refresh_devices ==
    /\ UiIdle
    /\ run_in_thread("_refresh_devices", <<>>, <<>>, 0)
    /\ UNCHANGED << flash_entries, dialog, log_queue, log_output, adb_status,
                    fastboot_status, after_queue, fs, tkCalls, wipe_answers >>
    /\ UNCHANGED dlVars

reboot_bootloader ==
    /\ UiIdle
    /\ run_in_thread("_adb_command", <<"reboot", "bootloader">>, <<>>, 0)
    /\ UNCHANGED << flash_entries, dialog, log_queue, log_output, adb_status,
                    fastboot_status, after_queue, fs, tkCalls, wipe_answers >>
    /\ UNCHANGED dlVars

reboot_system ==
    /\ UiIdle
    /\ run_in_thread("_adb_command", <<"reboot">>, <<>>, 0)
    /\ UNCHANGED << flash_entries, dialog, log_queue, log_output, adb_status,
                    fastboot_status, after_queue, fs, tkCalls, wipe_answers >>
    /\ UNCHANGED dlVars

fastboot_reboot ==
    /\ UiIdle
    /\ run_in_thread("_fastboot_command", <<"reboot">>, <<>>, 0)
    /\ UNCHANGED << flash_entries, dialog, log_queue, log_output, adb_status,
                    fastboot_status, after_queue, fs, tkCalls, wipe_answers >>
    /\ UNCHANGED dlVars

\* fastboot_wipe, up to the modal askyesno.
fastboot_wipe ==
    /\ UiIdle
    /\ Len(threads) < MaxThreads
    /\ Len(wipe_answers) < MaxWipes
    /\ dialog' = "askyesno"
    /\ UNCHANGED << flash_entries, threads, log_queue, log_output, adb_status,
                    fastboot_status, after_queue, fs, tkCalls, wipe_answers >>
    /\ UNCHANGED dlVars

\* fastboot_wipe without the early return on a declined confirmation.
wipe_threads_unconfirmed(answer) ==
    Append(threads, NewThread("_fastboot_command", <<"-w">>, <<>>,
                              Len(wipe_answers) + 1))

\* What fastboot_wipe does with the answer: the threads after it.  The new
\* thread remembers which confirmation preceded it.
wipe_threads(answer) ==
    IF ~answer
    THEN threads
    ELSE Append(threads, NewThread("_fastboot_command", <<"-w">>, <<>>,
                                   Len(wipe_answers) + 1))

\* fastboot_wipe, from the answer of askyesno on.
fastboot_wipe_answer(answer) ==
    /\ dialog = "askyesno"
    /\ dialog' = "none"
    /\ wipe_answers' = Append(wipe_answers, answer)
    /\ threads' = wipe_threads(answer)
    /\ UNCHANGED << flash_entries, log_queue, log_output, adb_status,
                    fastboot_status, after_queue, fs, tkCalls >>
    /\ UNCHANGED dlVars

\* flash_selected without the .strip() of the entry text.
flash_selections_unstripped(entries) ==
    LET keys == SelectSeq(Partitions, LAMBDA key : entries[key] # <<>>)
    IN  [k \in 1..Len(keys) |-> <<keys[k], entries[keys[k]]>>]

\* The selections dict flash_selected builds, as a sequence of
\* <<partition, path>> in insertion order.
flash_selections(entries) ==
    LET keys == SelectSeq(Partitions, LAMBDA key : strip(entries[key]) # <<>>)
    IN  [k \in 1..Len(keys) |-> <<keys[k], strip(entries[keys[k]])>>]

flash_selected ==
    /\ UiIdle
    /\ LET selections == flash_selections(flash_entries) IN
         IF selections = <<>>
         THEN /\ dialog' = "showinfo"
              /\ UNCHANGED threads
         ELSE /\ run_in_thread("_flash_images", <<>>, selections, 0)
              /\ UNCHANGED dialog
    /\ UNCHANGED << flash_entries, log_queue, log_output, adb_status,
                    fastboot_status, after_queue, fs, tkCalls, wipe_answers >>
    /\ UNCHANGED dlVars

\* The user closes a showinfo / showerror box of the presentation thread.
dismiss_dialog ==
    /\ dialog \in {"showinfo", "showerror"}
    /\ dialog' = "none"
    /\ UNCHANGED << flash_entries, threads, log_queue, log_output, adb_status,
                    fastboot_status, after_queue, fs, tkCalls, wipe_answers >>
    /\ UNCHANGED dlVars

download_vendor_tool(tool_name) ==
    /\ UiIdle
    /\ run_in_thread("_download_vendor_tool", <<tool_name>>, <<>>, 0)
    /\ UNCHANGED << flash_entries, dialog, log_queue, log_output, adb_status,
                    fastboot_status, after_queue, fs, tkCalls, wipe_answers >>
    /\ UNCHANGED dlVars

\* The "Open Vendor Page" button: _open_vendor_page on the presentation thread.
open_vendor_page_button(tool_name, opened) ==
    /\ UiIdle
    /\ dialog' = IF opened THEN dialog ELSE "showerror"
    /\ tkCalls' = IF opened THEN tkCalls
                  ELSE tkCalls \cup {<<MainThread, "showerror">>}
    /\ UNCHANGED << flash_entries, threads, log_queue, log_output, adb_status,
                    fastboot_status, after_queue, fs, wipe_answers >>
    /\ UNCHANGED dlVars

\* _flush_log: drains the queue into the log widget (timer callback).
flush_log ==
    /\ log_queue # <<>>
    /\ log_output' = log_output \o log_queue
    /\ log_queue' = <<>>
    /\ tkCalls' = tkCalls \cup {<<MainThread, "log_output.insert">>}
    /\ UNCHANGED << flash_entries, dialog, threads, adb_status,
                    fastboot_status, after_queue, fs, wipe_answers >>
    /\ UNCHANGED dlVars

\* _set_device_status, run by the main loop for a scheduled callback.
set_device_status ==
    /\ after_queue # <<>>
    /\ adb_status' = Head(after_queue)[1]
    /\ fastboot_status' = Head(after_queue)[2]
    /\ after_queue' = Tail(after_queue)
    /\ tkCalls' = tkCalls \cup {<<MainThread, "status.configure">>}
    /\ UNCHANGED << flash_entries, dialog, threads, log_queue, log_output, fs,
                    wipe_answers >>
    /\ UNCHANGED dlVars

\* --------------------------------------------------------- worker threads

\* A worker's step: its Thread record after the step and what it logged.
WorkerStep(t, next, msgs) ==
    /\ threads' = [threads EXCEPT ![t] =
                     [next EXCEPT !.events = threads[t].events \o LogEvents(msgs)]]
    /\ log_queue' = log_queue \o msgs

\* A worker's step that ran _run_cmd: `ran` is what run_cmd returned.
RunStep(t, next, ran) ==
    /\ threads' = [threads EXCEPT ![t] =
                     [next EXCEPT !.events = threads[t].events \o ran.events,
                                  !.pc = IF ran.raised THEN "raised" ELSE next.pc]]
    /\ log_queue' = log_queue \o LogsOf(ran.events)

\* _run_cmd without the `except FileNotFoundError` clause.
run_cmd_uncaught(cmd, raw) ==
    LET found  == cmd[1] \in fs
        output == IF found THEN strip(raw) ELSE <<>>
    IN  [ out    |-> output,
          raised |-> ~found,
          events |-> << <<"log", Msg("Running: ", cmd)>> >>
                     \o (IF found THEN << <<"process", cmd>> >> ELSE <<>>)
                     \o (IF found /\ output # <<>>
                         THEN << <<"log", Msg("", output)>> >> ELSE <<>>)
                     \o (IF found
                         THEN << <<"return", [exists |-> found, out |-> output]>> >>
                         ELSE <<>>) ]

\* _run_cmd(cmd) when the finished process wrote `raw`: subprocess.run starts
\* a process only if cmd[1] exists, and raises FileNotFoundError otherwise.
\* The events are what the call did, in order: the log lines, the process it
\* started, and its return with (history) whether the executable existed.
run_cmd(cmd, raw) ==
    LET found  == cmd[1] \in fs
        output == IF found THEN strip(raw) ELSE <<>>
    IN  [ out    |-> output,
          raised |-> FALSE,
          events |-> << <<"log", Msg("Running: ", cmd)>> >>
                     \o (IF found THEN << <<"process", cmd>> >> ELSE <<>>)
                     \o (IF ~found THEN << <<"log", Msg("Command not found.", <<>>)>> >>
                         ELSE IF output # <<>> THEN << <<"log", Msg("", output)>> >>
                         ELSE <<>>)
                     \o << <<"return", [exists |-> found, out |-> output]>> >> ]

NotFoundMsg(tool) ==
    IF tool = platform_tools_paths.adb
    THEN Msg("ADB not found. Download platform-tools first.", <<>>)
    ELSE Msg("Fastboot not found. Download platform-tools first.", <<>>)

ToolOf(target) ==
    IF target = "_adb_command" THEN platform_tools_paths.adb
    ELSE platform_tools_paths.fastboot

\* _adb_command / _fastboot_command: the existence check.
command_check(t) ==
    /\ t \in ThreadIds
    /\ threads[t].target \in {"_adb_command", "_fastboot_command"}
    /\ threads[t].pc = "start"
    /\ IF ToolOf(threads[t].target) \in fs
       THEN WorkerStep(t, [threads[t] EXCEPT !.pc = "run"], <<>>)
       ELSE WorkerStep(t, [threads[t] EXCEPT !.pc = "done"],
                       <<NotFoundMsg(ToolOf(threads[t].target))>>)
    /\ UNCHANGED << flash_entries, dialog, log_output, adb_status,
                    fastboot_status, after_queue, fs, tkCalls, wipe_answers >>
    /\ UNCHANGED dlVars

\* _adb_command / _fastboot_command: self._run_cmd([str(path), *args]).
command_run(t, raw) ==
    /\ t \in ThreadIds
    /\ threads[t].target \in {"_adb_command", "_fastboot_command"}
    /\ threads[t].pc = "run"
    /\ RunStep(t, [threads[t] EXCEPT !.pc = "done"],
               run_cmd(<<ToolOf(threads[t].target)>> \o threads[t].args, raw))
    /\ UNCHANGED << flash_entries, dialog, log_output, adb_status,
                    fastboot_status, after_queue, fs, tkCalls, wipe_answers >>
    /\ UNCHANGED dlVars

\* A loop that leaves out the last entry.
flash_has_next_short(th) == th.i < Len(th.selections)

\* Whether _flash_images's loop has another entry to flash.
flash_has_next(th) == th.i <= Len(th.selections)

\* _flash_images: one pass of the loop up to _fastboot_command's existence check.
flash_next(t) ==
    /\ t \in ThreadIds
    /\ threads[t].target = "_flash_images"
    /\ threads[t].pc = "start"
    /\ flash_has_next(threads[t])
    /\ LET entry == threads[t].selections[threads[t].i]
           flashing == Msg("Flashing ... from ...", entry)
       IN  IF platform_tools_paths.fastboot \in fs
           THEN WorkerStep(t, [threads[t] EXCEPT !.pc = "run"], <<flashing>>)
           ELSE WorkerStep(t, [threads[t] EXCEPT !.i = @ + 1],
                           <<flashing, NotFoundMsg(platform_tools_paths.fastboot)>>)
    /\ UNCHANGED << flash_entries, dialog, log_output, adb_status,
                    fastboot_status, after_queue, fs, tkCalls, wipe_answers >>
    /\ UNCHANGED dlVars

\* _flash_images: _fastboot_command's self._run_cmd for the current entry.
flash_run(t, raw) ==
    /\ t \in ThreadIds
    /\ threads[t].target = "_flash_images"
    /\ threads[t].pc = "run"
    /\ LET entry == threads[t].selections[threads[t].i]
       IN  RunStep(t, [threads[t] EXCEPT !.pc = "start", !.i = @ + 1],
                   run_cmd(<<platform_tools_paths.fastboot, "flash",
                             entry[1], entry[2]>>, raw))
    /\ UNCHANGED << flash_entries, dialog, log_output, adb_status,
                    fastboot_status, after_queue, fs, tkCalls, wipe_answers >>
    /\ UNCHANGED dlVars

\* _flash_images: after the loop.
flash_complete(t) ==
    /\ t \in ThreadIds
    /\ threads[t].target = "_flash_images"
    /\ threads[t].pc = "start"
    /\ ~flash_has_next(threads[t])
    /\ WorkerStep(t, [threads[t] EXCEPT !.pc = "done"],
                  <<Msg("Flash sequence complete.", <<>>)>>)
    /\ UNCHANGED << flash_entries, dialog, log_output, adb_status,
                    fastboot_status, after_queue, fs, tkCalls, wipe_answers >>
    /\ UNCHANGED dlVars

\* _refresh_devices: `adb_path.exists()` / `fastboot_path.exists()` guarding
\* the two "devices" commands.
refresh_check(t) ==
    /\ t \in ThreadIds
    /\ threads[t].target = "_refresh_devices"
    /\ threads[t].pc \in {"start", "fastboot_check"}
    /\ LET tool == IF threads[t].pc = "start" THEN platform_tools_paths.adb
                   ELSE platform_tools_paths.fastboot
           skip == IF threads[t].pc = "start" THEN "fastboot_check" ELSE "after"
           run  == IF threads[t].pc = "start" THEN "adb_run" ELSE "fastboot_run"
       IN  WorkerStep(t, [threads[t] EXCEPT !.pc = IF tool \in fs THEN run ELSE skip],
                      <<>>)
    /\ UNCHANGED << flash_entries, dialog, log_output, adb_status,
                    fastboot_status, after_queue, fs, tkCalls, wipe_answers >>
    /\ UNCHANGED dlVars

\* _refresh_devices: self._run_cmd([str(adb_path), "devices"]) and the same
\* for fastboot.
refresh_run(t, raw) ==
    /\ t \in ThreadIds
    /\ threads[t].target = "_refresh_devices"
    /\ threads[t].pc \in {"adb_run", "fastboot_run"}
    /\ IF threads[t].pc = "adb_run"
       THEN LET ran == run_cmd(<<platform_tools_paths.adb, "devices">>, raw)
            IN  RunStep(t, [threads[t] EXCEPT !.pc = "fastboot_check",
                                              !.adb_out = ran.out], ran)
       ELSE LET ran == run_cmd(<<platform_tools_paths.fastboot, "devices">>, raw)
            IN  RunStep(t, [threads[t] EXCEPT !.pc = "after",
                                              !.fastboot_out = ran.out], ran)
    /\ UNCHANGED << flash_entries, dialog, log_output, adb_status,
                    fastboot_status, after_queue, fs, tkCalls, wipe_answers >>
    /\ UNCHANGED dlVars

\* The two classifications of _refresh_devices.
adb_status_of(adb_out) ==
    IF ~contains_tab_device(adb_out) THEN "No device" ELSE "Device connected"

fastboot_status_of(fastboot_out) ==
    IF strip(fastboot_out) = <<>> THEN "No device" ELSE "Device connected"

\* _refresh_devices: self.after(0, self._set_device_status, ...), called on the
\* worker thread.  Tk is entered off the thread that owns it: the callback is
\* scheduled, or the call raises RuntimeError and ends the worker.
refresh_after(t, scheduled) ==
    /\ t \in ThreadIds
    /\ threads[t].target = "_refresh_devices"
    /\ threads[t].pc = "after"
    /\ tkCalls' = tkCalls \cup {<<t, "after">>}
    /\ after_queue' = IF scheduled
                      THEN Append(after_queue,
                                  << adb_status_of(threads[t].adb_out),
                                     fastboot_status_of(threads[t].fastboot_out) >>)
                      ELSE after_queue
    /\ WorkerStep(t, [threads[t] EXCEPT !.pc = IF scheduled THEN "report"
                                               ELSE "raised"], <<>>)
    /\ UNCHANGED << flash_entries, dialog, log_output, adb_status,
                    fastboot_status, fs, wipe_answers >>
    /\ UNCHANGED dlVars

\* _refresh_devices: the closing log line.
refresh_report(t) ==
    /\ t \in ThreadIds
    /\ threads[t].target = "_refresh_devices"
    /\ threads[t].pc = "report"
    /\ WorkerStep(t, [threads[t] EXCEPT !.pc = "done"],
                  IF Tools \subseteq fs
                  THEN <<Msg("Refreshed device status.", <<>>)>>
                  ELSE <<Msg("Platform-tools not installed. Download them in Setup.",
                             <<>>)>>)
    /\ UNCHANGED << flash_entries, dialog, log_output, adb_status,
                    fastboot_status, after_queue, fs, tkCalls, wipe_answers >>
    /\ UNCHANGED dlVars

\* _download_vendor_tool for a tool whose urls list is empty (the tools with
\* candidate URLs go through _download_first_available, modelled below).
vendor_no_direct_download(t) ==
    /\ t \in ThreadIds
    /\ threads[t].target = "_download_vendor_tool"
    /\ threads[t].pc = "start"
    /\ VENDOR_TOOLS[threads[t].args[1]].urls = <<>>
    /\ WorkerStep(t, [threads[t] EXCEPT !.pc = "open_vendor_page"],
                  <<Msg("No direct download for ... Opening vendor page.",
                        threads[t].args)>>)
    /\ UNCHANGED << flash_entries, dialog, log_output, adb_status,
                    fastboot_status, after_queue, fs, tkCalls, wipe_answers >>
    /\ UNCHANGED dlVars

\* _open_vendor_page on the worker thread: open_url, and on failure
\* messagebox.showerror, which is shown (the worker waits in it) or raises.
vendor_open_page(t, opened, shown) ==
    /\ t \in ThreadIds
    /\ threads[t].target = "_download_vendor_tool"
    /\ threads[t].pc = "open_vendor_page"
    /\ tkCalls' = IF opened THEN tkCalls ELSE tkCalls \cup {<<t, "showerror">>}
    /\ WorkerStep(t, [threads[t] EXCEPT !.pc = IF opened THEN "done"
                                               ELSE IF shown THEN "showerror"
                                               ELSE "raised"], <<>>)
    /\ UNCHANGED << flash_entries, dialog, log_output, adb_status,
                    fastboot_status, after_queue, fs, wipe_answers >>
    /\ UNCHANGED dlVars

\* The user closes the error box a worker thread is waiting in.
vendor_dismiss(t) ==
    /\ t \in ThreadIds
    /\ threads[t].pc = "showerror"
    /\ WorkerStep(t, [threads[t] EXCEPT !.pc = "done"], <<>>)
    /\ UNCHANGED << flash_entries, dialog, log_output, adb_status,
                    fastboot_status, after_queue, fs, tkCalls, wipe_answers >>
    /\ UNCHANGED dlVars

\* ------------------------------------------------------------ environment

\* The tools are installed (platform-tools extracted) or removed from disk,
\* at any time.
tool_appears(tool) ==
    /\ tool \notin fs
    /\ fs' = fs \cup {tool}
    /\ UNCHANGED << flash_entries, dialog, threads, log_queue, log_output,
                    adb_status, fastboot_status, after_queue, tkCalls,
                    wipe_answers >>
    /\ UNCHANGED dlVars

tool_disappears(tool) ==
    /\ tool \in fs
    /\ fs' = fs \ {tool}
    /\ UNCHANGED << flash_entries, dialog, threads, log_queue, log_output,
                    adb_status, fastboot_status, after_queue, tkCalls,
                    wipe_answers >>
    /\ UNCHANGED dlVars

\* -------------------------------------------------------------- downloader

\* A file's content is a sequence of cells, one per unit of data: unit k of
\* the resource at a URL is <<url, k>>.  A range of a file that was never
\* written (a write beyond the end leaves one) reads as Hole.
\* URLs are pairs <<name, number>>.
Hole == << <<"hole", 0>>, 0 >>
NoFile == [exists |-> FALSE, data |-> <<>>]
StaleFile == [exists |-> TRUE, data |-> << << <<"earlier download", 0>>, 1 >> >>]

PLATFORM_TOOLS_URL == <<"platform-tools-latest-darwin.zip", 0>>

\* A list of n candidate URLs.
CandidateUrls(n) == [k \in 1..n |-> <<"candidate", k>>]

\* What no step of a download changes.
restVars == << flash_entries, dialog, log_output, adb_status, fastboot_status,
              after_queue, tkCalls, wipe_answers, body_limit >>

\* A thread running a download: the Thread record with the locals of
\* _download_first_available (urls, and i for the position in the loop) and
\* of _download_file, and (history) the destination before the attempt.
NewDownload(target, urls) ==
    [ urls |-> urls, total |-> 0, downloaded |-> 0, last_logged |-> -1,
      pos |-> 0, success |-> FALSE, before |-> NoFile ]
    @@ NewThread(target, <<>>, <<>>, 0)

\* Units 1..n of the resource at url.
Body(url, from, n) == [k \in 1..n |-> <<url, from + k>>]

\* handle.write(chunk) at the handle's position.
write_at(file, pos, cells) ==
    LET end == IF Len(file.data) > pos + Len(cells) THEN Len(file.data)
               ELSE pos + Len(cells)
    IN  [ exists |-> TRUE,
          data   |-> [j \in 1..end |->
                        IF j > pos /\ j <= pos + Len(cells) THEN cells[j - pos]
                        ELSE IF j <= Len(file.data) THEN file.data[j]
                        ELSE Hole] ]

\* bucket = int((downloaded / total) * 100) // 10
progress_bucket(downloaded, total) == ((downloaded * 100) \div total) \div 10

\* `if bucket >= last_logged`
should_log_repeats(bucket, last_logged) == bucket >= last_logged

\* `if bucket > last_logged`
should_log(bucket, last_logged) == bucket > last_logged

\* `if dest.exists()`, without the size
download_succeeded_any_size(file) == file.exists

\* `if dest.exists() and dest.stat().st_size > 0`
download_succeeded(file) == file.exists /\ Len(file.data) > 0

\* An except clause that gives up on the first failure.
fetch_failed_gives_up(th) == [th EXCEPT !.i = Len(th.urls) + 1, !.pc = "fetch"]

\* `except Exception as exc: self.log(...)`, then the next url of the loop.
fetch_failed(th) == [th EXCEPT !.i = @ + 1, !.pc = "fetch"]

FailedMsg(url) == Msg("Download failed: ... (...)", url)

\* A download thread's step: the Thread record after it, what it did and
\* what it logged.
DownloadStep(t, next, did, msgs) ==
    /\ threads' = [threads EXCEPT ![t] =
                     [next EXCEPT !.events = threads[t].events \o did
                                             \o LogEvents(msgs)]]
    /\ log_queue' = log_queue \o msgs

InFetch(t) ==
    /\ t \in ThreadIds
    /\ threads[t].target \in {"_download_first_available", "_download_platform_tools"}

\* _download_file: urllib.request.urlopen(request, timeout=30) for the next
\* url.  It raises, or gives a response whose Content-Length is `total`
\* (0: no such header, or not a number).
fetch_urlopen(t, opened, total) ==
    /\ InFetch(t)
    /\ threads[t].pc = "fetch"
    /\ threads[t].i <= Len(threads[t].urls)
    /\ ~opened => total = 0
    /\ LET url == threads[t].urls[threads[t].i] IN
         IF opened
         THEN DownloadStep(t, [threads[t] EXCEPT !.pc = "open", !.total = total,
                                                 !.downloaded = 0,
                                                 !.last_logged = -1,
                                                 !.before = dest],
                           << <<"urlopen", url, total>> >>, <<>>)
         ELSE DownloadStep(t, fetch_failed([threads[t] EXCEPT !.before = dest]),
                           << <<"urlopen", url, total>>, <<"raise", "urlopen">> >>,
                           <<FailedMsg(url)>>)
    /\ UNCHANGED << dest, completed, fs, restVars >>

\* _download_file: open(dest, "wb") creates or truncates the file, or raises.
fetch_open(t, opened) ==
    /\ InFetch(t)
    /\ threads[t].pc = "open"
    /\ IF opened
       THEN /\ dest' = [exists |-> TRUE, data |-> <<>>]
            /\ DownloadStep(t, [threads[t] EXCEPT !.pc = "read", !.pos = 0],
                            << <<"open", "wb">> >>, <<>>)
       ELSE /\ dest' = dest
            /\ DownloadStep(t, fetch_failed(threads[t]), << <<"raise", "open">> >>,
                            <<FailedMsg(threads[t].urls[threads[t].i])>>)
    /\ UNCHANGED << completed, fs, restVars >>

\* Whether the response has given all the Content-Length it announced
\* (http.client then returns b"" without reading).
response_exhausted(th) == th.total > 0 /\ th.downloaded = th.total

\* _download_file: response.read(chunk_size) returns `size` units, which are
\* written and counted, and the progress line is logged on a new bucket.
fetch_read(t, size) ==
    /\ InFetch(t)
    /\ threads[t].pc = "read"
    /\ ~response_exhausted(threads[t])
    /\ threads[t].downloaded + size
         <= (IF threads[t].total > 0 THEN threads[t].total ELSE body_limit)
    /\ LET th         == threads[t]
           downloaded == th.downloaded + size
           bucket     == progress_bucket(downloaded, th.total)
           logs       == th.total > 0 /\ should_log(bucket, th.last_logged)
       IN  /\ dest' = write_at(dest, th.pos,
                               Body(th.urls[th.i], th.downloaded, size))
           /\ DownloadStep(t, [th EXCEPT !.pos = @ + size,
                                         !.downloaded = downloaded,
                                         !.last_logged = IF logs THEN bucket ELSE @],
                           << <<"write", size>> >>,
                           IF logs THEN <<Msg("Downloading ...: ...%", bucket * 10)>>
                           ELSE <<>>)
    /\ UNCHANGED << completed, fs, restVars >>

\* _download_file: response.read returns b"" (the body is over, or the server
\* closed the connection early: http.client raises nothing for a short body),
\* the file is closed and the call returns.
fetch_eof(t) ==
    /\ InFetch(t)
    /\ threads[t].pc = "read"
    /\ completed' = completed
                      \cup {Body(threads[t].urls[threads[t].i], 0, threads[t].downloaded)}
    /\ DownloadStep(t, [threads[t] EXCEPT !.pc = "check"],
                    << <<"eof", threads[t].downloaded>> >>, <<>>)
    /\ UNCHANGED << dest, fs, restVars >>

\* _download_file: response.read (or handle.write) raises mid-transfer; the
\* with blocks close the file and the response.
fetch_read_raises(t) ==
    /\ InFetch(t)
    /\ threads[t].pc = "read"
    /\ ~response_exhausted(threads[t])
    /\ DownloadStep(t, fetch_failed(threads[t]), << <<"raise", "read">> >>,
                    <<FailedMsg(threads[t].urls[threads[t].i])>>)
    /\ UNCHANGED << dest, completed, fs, restVars >>

ReturnPc(target) ==
    IF target = "_download_first_available" THEN "done" ELSE "returned"

\* _download_first_available: the test after a _download_file call that
\* returned: `return True`, or on to the next url.  The event keeps
\* (history) whether the file was then the body of a finished transfer.
fetch_check(t) ==
    /\ InFetch(t)
    /\ threads[t].pc = "check"
    /\ IF download_succeeded(dest)
       THEN DownloadStep(t, [threads[t] EXCEPT !.pc = ReturnPc(threads[t].target),
                                               !.success = TRUE],
                         << <<"check", dest, dest.data \in completed>>,
                            <<"fetch_return", TRUE>> >>, <<>>)
       ELSE DownloadStep(t, [threads[t] EXCEPT !.pc = "fetch", !.i = @ + 1],
                         << <<"check", dest, dest.data \in completed>> >>, <<>>)
    /\ UNCHANGED << dest, completed, fs, restVars >>

\* _download_first_available: `return False` after the loop.
fetch_exhausted(t) ==
    /\ InFetch(t)
    /\ threads[t].pc = "fetch"
    /\ threads[t].i > Len(threads[t].urls)
    /\ DownloadStep(t, [threads[t] EXCEPT !.pc = ReturnPc(threads[t].target),
                                          !.success = FALSE],
                    << <<"fetch_return", FALSE>> >>, <<>>)
    /\ UNCHANGED << dest, completed, fs, restVars >>

\* The "Download Platform Tools" button.
download_platform_tools ==
    /\ UiIdle
    /\ Len(threads) < MaxDownloadThreads
    /\ threads' = Append(threads, NewDownload("_download_platform_tools",
                                              <<PLATFORM_TOOLS_URL>>))
    /\ UNCHANGED << log_queue, dest, completed, fs, restVars >>

\* _download_platform_tools, to the call of _download_first_available.
platform_start(t) ==
    /\ t \in ThreadIds
    /\ threads[t].target = "_download_platform_tools"
    /\ threads[t].pc = "start"
    /\ DownloadStep(t, [threads[t] EXCEPT !.pc = "fetch"], <<>>,
                    <<Msg("Downloading platform-tools...", <<>>)>>)
    /\ UNCHANGED << dest, completed, fs, restVars >>

\* _download_platform_tools: `if not success`.
platform_after_fetch(t) ==
    /\ t \in ThreadIds
    /\ threads[t].target = "_download_platform_tools"
    /\ threads[t].pc = "returned"
    /\ IF threads[t].success
       THEN DownloadStep(t, [threads[t] EXCEPT !.pc = "extract"], <<>>,
                         <<Msg("Extracting platform-tools...", <<>>)>>)
       ELSE DownloadStep(t, [threads[t] EXCEPT !.pc = "done"], <<>>,
                         <<Msg("Failed to download platform-tools.", <<>>)>>)
    /\ UNCHANGED << dest, completed, fs, restVars >>

\* _download_platform_tools: zipfile.ZipFile(...).extractall and
\* _ensure_executable.  Only the whole body of a transfer can be a well-formed
\* archive; anything else raises BadZipFile.
platform_extract(t, well_formed) ==
    /\ t \in ThreadIds
    /\ threads[t].target = "_download_platform_tools"
    /\ threads[t].pc = "extract"
    /\ well_formed => dest.data \in completed
    /\ fs' = IF well_formed THEN fs \cup Tools ELSE fs
    /\ DownloadStep(t, [threads[t] EXCEPT !.pc = "done"],
                    << <<"extract", dest, dest.data \in completed>> >>,
                    IF well_formed
                    THEN <<Msg("Platform-tools extracted.", <<>>)>>
                    ELSE <<Msg("Downloaded platform-tools zip is corrupted.", <<>>)>>)
    /\ UNCHANGED << dest, completed, restVars >>

\* ---------------------------------------------------------- specification

InitApp ==
    /\ flash_entries = [key \in PartitionSet |-> <<>>]
    /\ dialog = "none"
    /\ log_queue = <<>>
    /\ log_output = <<>>
    /\ adb_status = "Not checked"
    /\ fastboot_status = "Not checked"
    /\ after_queue = <<>>
    /\ tkCalls = {}
    /\ wipe_answers = <<>>
    /\ completed = {}

\* The application after construction, the tools installed or not.
Init ==
    /\ InitApp
    /\ threads = <<>>
    /\ fs \in SUBSET Tools
    /\ dest = NoFile
    /\ body_limit = 0

\* _download_first_available called on a worker thread with a list of
\* candidate URLs, the destination absent or left by an earlier download.
InitFetch ==
    /\ InitApp
    /\ dest \in {NoFile, StaleFile}
    /\ \E n \in 0..MaxUrls :
          threads = << [NewDownload("_download_first_available", CandidateUrls(n))
                          EXCEPT !.pc = "fetch", !.before = dest] >>
    /\ fs = {}
    /\ body_limit = MaxBody

\* _download_file called for one URL with a long body.
InitProgress ==
    /\ InitApp
    /\ threads = << [NewDownload("_download_first_available", CandidateUrls(1))
                       EXCEPT !.pc = "fetch"] >>
    /\ fs = {}
    /\ dest = NoFile
    /\ body_limit = ProgressBody

\* The application after construction, before platform-tools are downloaded.
InitSetup ==
    /\ InitApp
    /\ threads = <<>>
    /\ fs = {}
    /\ dest \in {NoFile, StaleFile}
    /\ body_limit = MaxBody

PageOnlyTools == {name \in DOMAIN VENDOR_TOOLS : VENDOR_TOOLS[name].urls = <<>>}

\* Steps of the presentation thread's timers and of the environment.
Background ==
    \/ dismiss_dialog
    \/ flush_log
    \/ \E tool \in Tools : tool_appears(tool)
    \/ \E tool \in Tools : tool_disappears(tool)

\* The reboot and wipe commands.
Next ==
    \/ reboot_bootloader
    \/ reboot_system
    \/ fastboot_reboot
    \/ fastboot_wipe
    \/ \E answer \in BOOLEAN : fastboot_wipe_answer(answer)
    \/ \E name \in DOMAIN VENDOR_TOOLS, opened \in BOOLEAN :
          open_vendor_page_button(name, opened)
    \/ \E t \in 1..MaxThreads :
          \/ command_check(t)
          \/ \E raw \in CommandOutputs : command_run(t, raw)
    \/ Background

\* Device status and the vendor pages.
NextStatus ==
    \/ refresh_devices
    \/ \E name \in PageOnlyTools : download_vendor_tool(name)
    \/ \E name \in DOMAIN VENDOR_TOOLS, opened \in BOOLEAN :
          open_vendor_page_button(name, opened)
    \/ set_device_status
    \/ \E t \in 1..MaxStatusThreads :
          \/ refresh_check(t)
          \/ \E raw \in DevicesOutputs : refresh_run(t, raw)
          \/ \E scheduled \in BOOLEAN : refresh_after(t, scheduled)
          \/ refresh_report(t)
          \/ vendor_no_direct_download(t)
          \/ \E opened \in BOOLEAN, shown \in BOOLEAN :
                vendor_open_page(t, opened, shown)
          \/ vendor_dismiss(t)
    \/ Background

\* The Flash tab's image entries and the flash sequence.
NextFlash ==
    \/ \E key \in PartitionSet, text \in EntryTexts : TypeEntry(key, text)
    \/ \E key \in PartitionSet, text \in EntryTexts : browse_file(key, text)
    \/ flash_selected
    \/ \E t \in 1..MaxFlashThreads :
          \/ flash_next(t)
          \/ \E raw \in CommandOutputs : flash_run(t, raw)
          \/ flash_complete(t)
    \/ Background

\* The steps of _download_first_available and _download_file.
FetchSteps(t) ==
    \/ \E opened \in BOOLEAN, total \in 0..body_limit :
          fetch_urlopen(t, opened, total)
    \/ \E opened \in BOOLEAN : fetch_open(t, opened)
    \/ \E size \in 1..MaxChunk : fetch_read(t, size)
    \/ fetch_eof(t)
    \/ fetch_read_raises(t)
    \/ fetch_check(t)
    \/ fetch_exhausted(t)

\* One download.
NextFetch ==
    \/ FetchSteps(1)
    \/ flush_log

\* The "Download Platform Tools" button and its worker threads.
NextSetup ==
    \/ download_platform_tools
    \/ \E t \in 1..MaxDownloadThreads :
          \/ platform_start(t)
          \/ FetchSteps(t)
          \/ platform_after_fetch(t)
          \/ \E well_formed \in BOOLEAN : platform_extract(t, well_formed)

vars == << appVars, dlVars >>

Spec == Init /\ [][Next]_vars

SpecStatus == Init /\ [][NextStatus]_vars

SpecFlash == Init /\ [][NextFlash]_vars

SpecFetch == InitFetch /\ [][NextFetch]_vars

SpecProgress == InitProgress /\ [][NextFetch]_vars

SpecSetup == InitSetup /\ [][NextSetup]_vars

\* ----------------------------------------------------------------- claims

HasWipeArg(cmd) == \E j \in 2..Len(cmd) : cmd[j] = "-w"

IsWipeThread(th) == HasWipeArg(<<th.target>> \o th.args)

RanWipe(th) ==
    \E k \in DOMAIN th.events :
        th.events[k][1] = "process" /\ HasWipeArg(th.events[k][2])

\* C1: a fastboot process with the argument -w is only ever started by a thread
\* that fastboot_wipe started after an affirmative answer to its own
\* confirmation; every thread started with -w belongs to one affirmative
\* answer, no two to the same, so a declined confirmation starts no thread
\* (and with no thread, no process).
C1_WipeOnlyAfterConfirmation ==
    /\ \A t \in ThreadIds :
          /\ RanWipe(threads[t]) => IsWipeThread(threads[t])
          /\ IsWipeThread(threads[t]) =>
                /\ threads[t].confirmed \in 1..Len(wipe_answers)
                /\ wipe_answers[threads[t].confirmed]
                /\ \A u \in ThreadIds :
                      threads[u].confirmed = threads[t].confirmed => u = t
    /\ Cardinality({t \in ThreadIds : IsWipeThread(threads[t])})
         = Cardinality({k \in DOMAIN wipe_answers : wipe_answers[k]})

\* C1's case: one confirmation was declined, another accepted, and the wipe
\* process of the accepted one has been started.
C1_Witness ==
    /\ \E k \in DOMAIN wipe_answers : ~wipe_answers[k]
    /\ \E t \in ThreadIds : RanWipe(threads[t])

\* The events of one _run_cmd call that returned at position k: from its
\* "Running: " log line on.
CallStart(events, k) ==
    CHOOSE j \in 1..k :
        /\ events[j][1] = "log" /\ events[j][2][1] = "Running: "
        /\ \A m \in (j + 1)..k :
              ~(events[m][1] = "log" /\ events[m][2][1] = "Running: ")

\* C6: a _run_cmd call made when the executable does not exist (it can only
\* have disappeared after the caller's existence check) returns the empty
\* string, starts no process and does not raise.
C6_RunMissingReturnsEmpty ==
    \A t \in ThreadIds :
        /\ threads[t].pc # "raised"
        /\ \A k \in DOMAIN threads[t].events :
              LET e == threads[t].events[k] IN
                (e[1] = "return" /\ ~e[2].exists) =>
                    /\ e[2].out = <<>>
                    /\ \A m \in CallStart(threads[t].events, k)..k :
                          threads[t].events[m][1] # "process"

\* C6's case: a command thread passed its existence check and then called
\* _run_cmd on an executable that was gone.
C6_Witness ==
    \E t \in ThreadIds :
        /\ threads[t].pc = "done"
        /\ \E k \in DOMAIN threads[t].events :
              threads[t].events[k][1] = "return" /\ ~threads[t].events[k][2].exists

\* C8: every Tk call that shows a result is made by the presentation thread.
C8_OnlyPresentationThreadCallsTk ==
    \A call \in tkCalls : call[1] = MainThread

IsFlashing(e) == e[1] = "log" /\ e[2][1] = "Flashing ... from ..."
IsComplete(e) == e[1] = "log" /\ e[2][1] = "Flash sequence complete."
IsNotFound(e) ==
    e[1] = "log" /\ e[2][1] \in { "Command not found.",
                                  "Fastboot not found. Download platform-tools first." }

Positions(events, Test(_)) ==
    SelectSeq([x \in 1..Len(events) |-> x], LAMBDA x : Test(events[x]))

FlashCmd(entry) == <<platform_tools_paths.fastboot, "flash", entry[1], entry[2]>>

\* The processes a thread started, in order.
Processes(th) ==
    LET at == Positions(th.events, LAMBDA e : e[1] = "process")
    IN  [k \in 1..Len(at) |-> th.events[at[k]][2]]

\* The events of the attempt on entry j: after its "Flashing" line, up to the
\* next one (or the completion line, or the end).
Attempt(th, j) ==
    LET at   == Positions(th.events, IsFlashing)
        last == IF j < Len(at) THEN at[j + 1] - 1
                ELSE IF th.pc = "done" THEN Len(th.events) - 1
                ELSE Len(th.events)
    IN  SubSeq(th.events, at[j] + 1, last)

Attempted(th) == Len(Positions(th.events, IsFlashing))

CompleteLines(th) == Len(Positions(th.events, IsComplete))

AllBlank(entries) == \A key \in PartitionSet : strip(entries[key]) = <<>>

\* C5: while every entry is empty or whitespace-only no step starts a worker
\* thread, and where no worker thread was started nothing has been logged
\* (each _run_cmd call and each flash line logs).
C5_EmptySelectionRejected ==
    /\ [][AllBlank(flash_entries) => Len(threads') = Len(threads)]_vars
    /\ [](threads = <<>> => log_queue = <<>> /\ log_output = <<>>)

\* C5's case: flash_selected has rejected a selection whose only text is
\* whitespace, and shows its message box.
C5_Witness ==
    /\ dialog = "showinfo"
    /\ \E key \in PartitionSet : flash_entries[key] # <<>>
    /\ AllBlank(flash_entries)
    /\ threads = <<>>

IsFetch(th) == th.target \in {"_download_first_available", "_download_platform_tools"}

IsUrlopen(e) == e[1] = "urlopen"
IsRaise(e) == e[1] = "raise"
IsEof(e) == e[1] = "eof"
IsCheck(e) == e[1] = "check"
IsFailedLine(e) == e[1] = "log" /\ e[2][1] = "Download failed: ... (...)"
IsProgressLine(e) == e[1] = "log" /\ e[2][1] = "Downloading ...: ...%"
ReturnsTrue(e) == e[1] = "fetch_return" /\ e[2]
ReturnsFalse(e) == e[1] = "fetch_return" /\ ~e[2]

\* The events of the j-th _download_file call of a thread: from its urlopen
\* up to the next call's (or the end).
Transfer(th, j) ==
    LET at == Positions(th.events, IsUrlopen)
    IN  SubSeq(th.events, at[j],
               IF j < Len(at) THEN at[j + 1] - 1 ELSE Len(th.events))

Transfers(th) == Len(Positions(th.events, IsUrlopen))

\* The file a check found exists and is not empty.
FoundNonEmpty(e) == e[2].exists /\ Len(e[2].data) > 0

\* C2: _download_first_available goes through the urls in list order, one
\* _download_file call each; it returns True exactly at the first url whose
\* transfer ended without an exception and left the destination existing and
\* not empty, and attempts no url after it; it returns False only after all
\* urls were attempted; no exception leaves it; for an empty list it returns
\* False with no request, no file opened and no log line.
C2_FirstAvailableInOrder ==
    \A t \in ThreadIds :
        threads[t].target = "_download_first_available" =>
            LET th == threads[t]
                ev == th.events
                at == Positions(ev, IsUrlopen)
                n  == Len(at)
            IN  /\ th.pc \in {"fetch", "open", "read", "check", "done"}
                /\ [j \in 1..n |-> ev[at[j]][2]] = SubSeq(th.urls, 1, n)
                /\ \A k \in DOMAIN ev :
                      /\ ReturnsTrue(ev[k]) =>
                            /\ k = Len(ev) /\ th.pc = "done" /\ k > 1
                            /\ IsCheck(ev[k - 1]) /\ FoundNonEmpty(ev[k - 1])
                      /\ IsCheck(ev[k]) =>
                            /\ k > 1 /\ IsEof(ev[k - 1])
                            /\ FoundNonEmpty(ev[k]) =>
                                  k < Len(ev) /\ ReturnsTrue(ev[k + 1])
                      /\ ReturnsFalse(ev[k]) =>
                            /\ k = Len(ev) /\ th.pc = "done"
                            /\ n = Len(th.urls)
                /\ \A j \in 1..n :
                      LET seg == Transfer(th, j) IN
                        /\ Len(Positions(seg, IsRaise)) + Len(Positions(seg, IsCheck))
                             = (IF j < n \/ th.pc \in {"fetch", "done"} THEN 1 ELSE 0)
                        /\ Len(Positions(seg, IsFailedLine)) = Len(Positions(seg, IsRaise))
                /\ th.pc = "done" => ev # <<>> /\ ev[Len(ev)][1] = "fetch_return"
                /\ th.urls = <<>> =>
                      /\ \A k \in DOMAIN ev : ReturnsFalse(ev[k])
                      /\ log_queue = <<>> /\ log_output = <<>>
                      /\ dest \in {NoFile, StaleFile} /\ completed = {}

\* C2's case: the first url failed, the second url's transfer ended and left
\* a non-empty file, and the call returned True.
C2_Witness ==
    \E t \in ThreadIds :
        /\ threads[t].target = "_download_first_available"
        /\ threads[t].pc = "done"
        /\ threads[t].success
        /\ Transfers(threads[t]) = 2

\* C3 as stated: when the first of two urls fails (by an exception, or by a
\* transfer that ends with nothing written) and the second succeeds, the
\* destination holds the second url's body only and exactly one
\* "Download failed" line was logged.
C3_OneFailureLineThenSuccess ==
    \A t \in ThreadIds :
        ( /\ threads[t].target = "_download_first_available"
          /\ threads[t].pc = "done"
          /\ threads[t].success
          /\ Transfers(threads[t]) = 2 ) =>
            /\ dest.exists
            /\ dest.data = Body(threads[t].urls[2], 0, Len(dest.data))
            /\ Len(Positions(threads[t].events, IsFailedLine)) = 1

\* The progress values one _download_file call logged, in order.
ProgressValues(seg) ==
    LET at == Positions(seg, IsProgressLine)
    IN  [k \in 1..Len(at) |-> seg[at[k]][2][2]]

\* C7: the progress lines of one _download_file call carry strictly
\* increasing multiples of ten, and a call whose response has no valid
\* Content-Length logs none.
C7_ProgressStrictlyIncreasing ==
    \A t \in ThreadIds :
        IsFetch(threads[t]) =>
            \A j \in 1..Transfers(threads[t]) :
                LET seg    == Transfer(threads[t], j)
                    values == ProgressValues(seg)
                IN  /\ \A k \in DOMAIN values :
                          /\ values[k] \in {10 * b : b \in 0..10}
                          /\ k > 1 => values[k - 1] < values[k]
                    /\ seg[1][3] = 0 => values = <<>>

\* C7's case: a transfer with a Content-Length went to its end, and one of
\* its chunks fell into the bucket of the chunk before it, so that it logged
\* fewer lines than it read chunks.
C7_Witness ==
    \E t \in ThreadIds :
        /\ IsFetch(threads[t])
        /\ threads[t].pc = "check"
        /\ LET seg == Transfer(threads[t], Transfers(threads[t]))
           IN  /\ seg[1][3] > 0
               /\ Len(ProgressValues(seg)) > 1
               /\ Len(ProgressValues(seg))
                    < Len(Positions(seg, LAMBDA e : e[1] = "write"))

\* C9 as stated: while and after a thread downloads, the destination is what
\* it was before the attempt, or is absent, or is the whole body of a
\* transfer that ran to its end.
C9_DestinationWrittenAtomically ==
    \A t \in ThreadIds :
        threads[t].target = "_download_first_available" =>
            \/ dest = threads[t].before
            \/ ~dest.exists
            \/ dest.data \in completed

====
